---------------------------- MODULE Spec2Model ----------------------------
(***************************************************************************)
(* Model of folder_flattener.py: flatten_folder and its helpers            *)
(* get_all_files, files_are_identical and handle_name_conflict, run over a *)
(* small file system (a source tree and a flat destination directory).     *)
(*                                                                         *)
(* A file is a record [content, readable].  A file name is a triple        *)
(* <<stem, suffixes, ext>>: <<"x", <<>>, "wav">> is x.wav and              *)
(* <<"x", <<1>>, "wav">> is x_001.wav, so that the name that               *)
(* handle_name_conflict builds (stem + "_" + counter + ext) is the same    *)
(* name as a file that is already called x_001.wav.  A source path is a    *)
(* pair <<directory, name>> below the input directory.                     *)
(***************************************************************************)
EXTENDS Naturals, Integers, Sequences, FiniteSets, TLC

\* ------------------------------------------------------------------ bounds

\* Largest number of files in a source tree of the general family.
MaxFiles == 2

\* Largest number of files already in the destination directory.
MaxDstInit == 2

\* Largest number of copy/move failures the environment injects in all.
MaxFailures == 1

\* ---------------------------------------------------------------- universe

Dirs == {"a", "b", "c"}

X == <<"x", <<>>, "wav">>

X1 == <<"x", <<1>>, "wav">>

X2 == <<"x", <<2>>, "wav">>

Y == <<"y", <<>>, "TXT">>

SrcNames == {X, X1, Y}

\* Contents 1 and 2 have the same length, content 3 is longer; content 0 is
\* what a copy that failed half way leaves behind (a truncated file).
Contents == {1, 2, 3}

Truncated == [content |-> 0, readable |-> TRUE]

File(c, r) == [content |-> c, readable |-> r]

\* os.path.getsize
getsize(f) == IF f.content = 0 THEN 0 ELSE IF f.content = 3 THEN 2 ELSE 1

\* All orderings of a finite set, as sequences.
Perms(S) ==
    {s \in [1..Cardinality(S) -> S] : \A j, k \in 1..Cardinality(S) : j # k => s[j] # s[k]}

\* ---------------------------------------------------------------- helpers

\* str.lower().strip('.') on the extension strings of the universe.
Normalize(e) ==
    CASE e \in {"wav", "WAV", ".wav"} -> "wav"
      [] e \in {"txt", "TXT", ".txt"} -> "txt"
      [] OTHER -> e

\* os.path.basename(source_file)
basename(source_file) == source_file[2]

\* f"{name}_{counter:03d}{ext}" joined to the directory of dest_path
Suffixed(dest_path, counter) == <<dest_path[1], Append(dest_path[2], counter), dest_path[3]>>

\* os.path.exists in the destination directory d
exists(d, path) == path \in DOMAIN d

\* The directory d with file f written under name path.
Put(d, path, f) == [n \in DOMAIN d \cup {path} |-> IF n = path THEN f ELSE d[n]]

\* The tree s without the file at path p.
Remove(s, p) == [q \in DOMAIN s \ {p} |-> s[q]]


\* --------------------------------------------------------- get_all_files

\* "if extensions:" -- None and the empty list are both falsy.
Truthy(exts) == exts.present /\ exts.list # {}

\* The extension test of get_all_files for one file name.
Eligible(path, exts) ==
    Truthy(exts) => Normalize(path[2][3]) \in {Normalize(e) : e \in exts.list}

\* get_all_files: the files os.walk yields, in the order it yields them, that
\* pass the extension filter.  No sort is applied.
get_all_files(walk, exts) == SelectSeq(walk, LAMBDA p : Eligible(p, exts))

\* os.walk visits one directory at a time: the files of a directory are
\* contiguous, the order of directories and of files within one is the file
\* system's.  A root that is missing or is no directory yields nothing (the
\* scandir error goes to onerror, which is None).
os_walk(kind, tree) ==
    IF kind # "dir" THEN {<<>>}
    ELSE {s \in Perms(DOMAIN tree) :
            \A j, k, l \in 1..Len(s) :
                (j < k /\ k < l /\ s[j][1] = s[l][1]) => s[k][1] = s[j][1]}

\* ----------------------------------------------------- files_are_identical

\* get_file_hash raises when the file cannot be opened for reading.
HashRaises(f) == ~f.readable

\* files_are_identical(file1, file2): size first, then the digests; any
\* exception is caught and answered False.
files_are_identical(file1, file2) ==
    IF getsize(file1) # getsize(file2) THEN FALSE
    ELSE IF HashRaises(file1) \/ HashRaises(file2) THEN FALSE
    ELSE file1.content = file2.content

\* The comparison of file1 and file2 ends in the except branch.
CompareRaises(file1, file2) ==
    getsize(file1) = getsize(file2) /\ (HashRaises(file1) \/ HashRaises(file2))

\* ---------------------------------------------------- handle_name_conflict

RECURSIVE ScanCounter(_, _, _)
\* The while loop of handle_name_conflict from counter on.
ScanCounter(d, dest_path, counter) ==
    IF ~exists(d, Suffixed(dest_path, counter)) THEN Suffixed(dest_path, counter)
    ELSE ScanCounter(d, dest_path, counter + 1)

\* handle_name_conflict without its existence test: the path is kept.
handle_name_conflict_keep(d, dest_path) == dest_path

\* handle_name_conflict without its loop: the first suffix is taken unseen.
handle_name_conflict_once(d, dest_path) ==
    IF ~exists(d, dest_path) THEN dest_path ELSE Suffixed(dest_path, 1)

\* handle_name_conflict with its counter started at 2.
handle_name_conflict_from2(d, dest_path) ==
    IF ~exists(d, dest_path) THEN dest_path ELSE ScanCounter(d, dest_path, 2)

handle_name_conflict(d, dest_path) ==
    IF ~exists(d, dest_path) THEN dest_path ELSE ScanCounter(d, dest_path, 1)

\* ------------------------------------------------------------------ state

VARIABLES
    input_kind,          \* what input_dir is: "dir", "file" or "missing"
    output_kind,         \* what output_dir is: "dir", "file" or "missing"
    extensions,          \* the extensions argument: [present, list]
    move_files,          \* the move_files argument
    conflict_resolution, \* the conflict_resolution argument
    src,                 \* the files below input_dir: source path -> file
    dst,                 \* the files in output_dir: name -> file
    all_files,           \* flatten_folder's list of discovered source paths
    i,                   \* position of the for loop in all_files
    results,             \* flatten_folder's results dictionary
    pc,                  \* "idle", "loop", "done", "raised" or "interrupted"
    run,                 \* "first" or "second" call of flatten_folder
    failures_left,       \* copy/move failures the environment may still inject
    outcome,             \* history: source path -> what this run did with it
    target_of,           \* history: source path -> name this run wrote it to
    cmp_raised,          \* history: paths whose comparison hit the except branch
    start,               \* history: src and dst when this run began
    first                \* history: the first run, once the second has begun

vars ==
    <<input_kind, output_kind, extensions, move_files, conflict_resolution, src, dst,
      all_files, i, results, pc, run, failures_left, outcome, target_of, cmp_raised,
      start, first>>

args == <<input_kind, extensions, move_files, conflict_resolution>>

\* results as flatten_folder initialises it (lines 179-185)
NewResults == [processed |-> 0, skipped |-> 0, conflicts |-> 0, errors |-> 0, error_files |-> <<>>]

NoHistory == [p \in {} |-> "none"]

\* ------------------------------------------------------- per-file decisions

\* dest_path = os.path.join(output_dir, os.path.basename(source_file))
DestPath(source_file) == basename(source_file)

\* "if os.path.exists(dest_path)"
Conflict(d, source_file) == exists(d, DestPath(source_file))

\* The entry is a conflict whose occupant files_are_identical calls identical.
IsIdentical(d, s, source_file) ==
    Conflict(d, source_file) /\ files_are_identical(s[source_file], d[DestPath(source_file)])

\* A conflict_resolution of "overwrite" that is honoured: the taken path is
\* written to.
Target_overwrite(d, source_file) ==
    IF Conflict(d, source_file) /\ conflict_resolution # "overwrite"
    THEN handle_name_conflict(d, DestPath(source_file))
    ELSE DestPath(source_file)

\* The path the file is copied or moved to when it is not skipped. The branch
\* for a free name tests conflict_resolution for "skip" and "overwrite" and
\* does nothing in either case, so the path does not depend on it.
Target(d, source_file) ==
    IF Conflict(d, source_file) THEN handle_name_conflict(d, DestPath(source_file))
    ELSE DestPath(source_file)

\* The conflict counter moved out of the "if os.path.exists" branch.
CountConflict_every(res, conflict) == [res EXCEPT !.conflicts = @ + 1]

\* results['conflicts'] += 1 when the destination name is taken
CountConflict(res, conflict) ==
    [res EXCEPT !.conflicts = IF conflict THEN @ + 1 ELSE @]

\* The skip branch without its "continue": the entry is counted twice.
CountSkipped_fallthrough(res) == [res EXCEPT !.skipped = @ + 1, !.processed = @ + 1]

\* the skip branch: results['skipped'] += 1; continue
CountSkipped(res) == [res EXCEPT !.skipped = @ + 1]

\* after the copy or move: results['processed'] += 1
CountProcessed(res) == [res EXCEPT !.processed = @ + 1]

\* The except branch without the append to error_files.
CountError_noappend(res, source_file) == [res EXCEPT !.errors = @ + 1]

\* the except branch: results['errors'] += 1; error_files.append(source_file)
CountError(res, source_file) ==
    [res EXCEPT !.errors = @ + 1, !.error_files = Append(@, source_file)]

\* The loop position after one entry has been handled.
NextEntry(n) == n + 1

\* What shutil.copy2 / shutil.move leave in the destination on success.
\* copy2 copies the permission bits, a move carries the file itself.
Placed(d, path, f) == Put(d, path, f)

\* A move that leaves the source file behind.
SourceAfter_keep(s, source_file, move) == s

\* A copy that removes the source file like a move.
SourceAfter_remove(s, source_file, move) == Remove(s, source_file)

\* The source tree after a successful placement of source_file.
SourceAfter(s, source_file, move) == IF move THEN Remove(s, source_file) ELSE s

\* What a failed copy or move leaves in the destination: nothing (the source
\* could not be opened, the rename was refused), a truncated file (the disk
\* filled up) or the whole file (copystat or the unlink of a cross-device
\* move failed after the data was written).
FailureKinds == {"nothing", "truncated", "copied"}

AfterFailure(d, path, f, kind) ==
    CASE kind = "truncated" -> Put(d, path, Truncated)
      [] kind = "copied" -> Put(d, path, f)
      [] OTHER -> d

\* ------------------------------------------------------------------- Init

NoFilter == [present |-> FALSE, list |-> {}]

\* The trees with at most k files at the given paths, every file readable.
TreesUpTo(paths, k, contents) ==
    UNION {[P -> {File(c, TRUE) : c \in contents}] :
             P \in {Q \in SUBSET paths : Cardinality(Q) <= k}}

\* One unreadable file (mode 000) in a tree or directory.
MakeUnreadable(t, p) == [q \in DOMAIN t |-> IF q = p THEN File(t[q].content, FALSE) ELSE t[q]]

GeneralPaths == {<<"a", X>>, <<"b", X>>, <<"c", Y>>}

CollisionPaths == Dirs \X {X}

AliasPaths == {<<"a", X>>, <<"b", X>>, <<"c", X1>>}

FilterPaths == {<<"a", X>>, <<"b", X>>, <<"c", Y>>}

DstInits == TreesUpTo({X, X1, X2}, MaxDstInit, {1})

\* The part of the initial state that is the same for every call.
InitCall ==
    /\ all_files = <<>>
    /\ i = 1
    /\ results = NewResults
    /\ pc = "idle"
    /\ run = "first"
    /\ outcome = NoHistory
    /\ target_of = NoHistory
    /\ cmp_raised = {}
    /\ start = [src |-> src, dst |-> dst]
    /\ first = [results |-> NewResults, outcome |-> NoHistory, all_files |-> <<>>,
                interrupted |-> FALSE, start |-> start, src |-> src, dst |-> dst]

\* Any small tree against any small destination, no filter.  Contents of
\* different length meet in the collision and unreadable families and
\* wherever a failed copy left a truncated file.
InitGeneral ==
    /\ input_kind = "dir"
    /\ output_kind = "dir"
    /\ extensions = NoFilter
    /\ move_files \in BOOLEAN
    /\ conflict_resolution = "rename"
    /\ src \in TreesUpTo(GeneralPaths, MaxFiles, {1, 2})
    /\ dst \in DstInits
    /\ failures_left = MaxFailures
    /\ InitCall

\* The same basename in every directory, destination empty or not yet made.
InitCollision ==
    /\ input_kind = "dir"
    /\ output_kind \in {"dir", "missing"}
    /\ extensions = NoFilter
    /\ move_files \in BOOLEAN
    /\ conflict_resolution = "rename"
    /\ src \in [CollisionPaths -> {File(c, TRUE) : c \in Contents}]
    /\ dst = NoHistory
    /\ failures_left = 0
    /\ InitCall

\* Two files of one basename beside a file whose own name is a suffixed form
\* of that basename, against any small destination.
InitAlias ==
    /\ input_kind = "dir"
    /\ output_kind = "dir"
    /\ extensions = NoFilter
    /\ move_files \in BOOLEAN
    /\ conflict_resolution = "rename"
    /\ src \in [AliasPaths -> {File(c, TRUE) : c \in Contents}]
    /\ dst \in DstInits
    /\ failures_left = 0
    /\ InitCall

\* Extension filters, among them the empty list and spellings to normalise.
InitFilter ==
    /\ input_kind = "dir"
    /\ output_kind = "dir"
    /\ extensions \in {[present |-> TRUE, list |-> l] : l \in {{}, {".WAV"}, {"txt", "wav"}}}
    /\ move_files \in BOOLEAN
    /\ conflict_resolution = "rename"
    /\ src \in TreesUpTo(FilterPaths, MaxFiles, {1, 2})
    /\ dst = NoHistory
    /\ failures_left = 0
    /\ InitCall

\* One file that cannot be read, in the source or in the destination.
InitUnreadable ==
    /\ input_kind = "dir"
    /\ output_kind = "dir"
    /\ extensions = NoFilter
    /\ move_files \in BOOLEAN
    /\ conflict_resolution = "rename"
    /\ \E s \in TreesUpTo({<<"a", X>>, <<"b", X>>}, MaxFiles, {1, 2}) \ {NoHistory},
          d \in {[n \in {X} |-> File(c, TRUE)] : c \in {1, 3}} :
          \/ \E p \in DOMAIN s : src = MakeUnreadable(s, p) /\ dst = d
          \/ src = s /\ dst = MakeUnreadable(d, X)
    /\ failures_left = 0
    /\ InitCall

\* An input_dir that is missing or a regular file; an output_dir that is a
\* regular file.
InitRoots ==
    /\ \/ input_kind \in {"missing", "file"} /\ src = NoHistory
          /\ output_kind \in {"dir", "missing"}
       \/ input_kind = "dir" /\ src \in TreesUpTo({<<"a", X>>}, MaxFiles, {1})
          /\ output_kind \in {"file", "missing"}
    /\ extensions = NoFilter
    /\ move_files \in BOOLEAN
    /\ conflict_resolution = "rename"
    /\ dst = NoHistory
    /\ failures_left = 0
    /\ InitCall

\* Every value of conflict_resolution, with and without a name conflict.
InitPolicy ==
    /\ input_kind = "dir"
    /\ output_kind = "dir"
    /\ extensions = NoFilter
    /\ move_files \in BOOLEAN
    /\ conflict_resolution \in {"rename", "skip", "overwrite"}
    /\ src \in TreesUpTo({<<"a", X>>, <<"b", X>>}, MaxFiles, {1, 2})
    /\ dst \in TreesUpTo({X}, MaxDstInit, {1})
    /\ failures_left = 0
    /\ InitCall

Init ==
    InitGeneral \/ InitCollision \/ InitAlias \/ InitFilter \/ InitUnreadable \/ InitRoots
    \/ InitPolicy

\* ---------------------------------------------------------------- actions

\* flatten_folder up to the loop: os.makedirs(output_dir, exist_ok=True), then
\* all_files = get_all_files(input_dir, extensions).
Begin ==
    /\ pc = "idle"
    /\ output_kind # "file"
    /\ output_kind' = "dir"
    /\ \E walk \in os_walk(input_kind, src) : all_files' = get_all_files(walk, extensions)
    /\ i' = 1
    /\ results' = NewResults
    /\ pc' = "loop"
    /\ outcome' = NoHistory
    /\ target_of' = NoHistory
    /\ cmp_raised' = {}
    /\ start' = [src |-> src, dst |-> dst]
    /\ UNCHANGED <<args, src, dst, run, failures_left, first>>

\* os.makedirs raises FileExistsError when output_dir is a regular file;
\* nothing in flatten_folder catches it.
BeginRaises ==
    /\ pc = "idle"
    /\ output_kind = "file"
    /\ pc' = "raised"
    /\ UNCHANGED <<args, output_kind, src, dst, all_files, i, results, run, failures_left,
                   outcome, target_of, cmp_raised, start, first>>

\* The entry the for loop is at.
AtEntry == pc = "loop" /\ i <= Len(all_files)

\* History of one handled entry.
Note(source_file, what, path) ==
    /\ outcome' = Put(outcome, source_file, what)
    /\ target_of' = Put(target_of, source_file, path)
    /\ cmp_raised' =
         IF Conflict(dst, source_file)
            /\ CompareRaises(src[source_file], dst[DestPath(source_file)])
         THEN cmp_raised \cup {source_file} ELSE cmp_raised

\* One iteration that ends in "continue": the name is taken by a file that
\* files_are_identical calls identical.
SkipIdentical ==
    /\ AtEntry
    /\ LET source_file == all_files[i] IN
         /\ IsIdentical(dst, src, source_file)
         /\ results' = CountSkipped(CountConflict(results, TRUE))
         /\ Note(source_file, "skipped", DestPath(source_file))
    /\ i' = NextEntry(i)
    /\ UNCHANGED <<args, output_kind, src, dst, all_files, pc, run, failures_left, start, first>>

\* One iteration whose copy or move succeeds.  shutil.copy2 has to read the
\* source; shutil.move renames it.
Place ==
    /\ AtEntry
    /\ LET source_file == all_files[i]
           dest_path == Target(dst, source_file) IN
         /\ ~IsIdentical(dst, src, source_file)
         /\ move_files \/ src[source_file].readable
         /\ dst' = Placed(dst, dest_path, src[source_file])
         /\ src' = SourceAfter(src, source_file, move_files)
         /\ results' = CountProcessed(CountConflict(results, Conflict(dst, source_file)))
         /\ Note(source_file, "placed", dest_path)
    /\ i' = NextEntry(i)
    /\ UNCHANGED <<args, output_kind, all_files, pc, run, failures_left, start, first>>

\* One iteration whose copy or move raises: the except branch records the
\* error and the loop goes on.  A copy of an unreadable source always fails;
\* any other failure (disk full, permission denied, cross-device move) is the
\* environment's, at most failures_left times.
PlaceFails ==
    /\ AtEntry
    /\ LET source_file == all_files[i]
           dest_path == Target(dst, source_file)
           forced == ~move_files /\ ~src[source_file].readable IN
         /\ ~IsIdentical(dst, src, source_file)
         /\ forced \/ failures_left > 0
         /\ failures_left' = IF forced THEN failures_left ELSE failures_left - 1
         /\ \E kind \in FailureKinds :
              /\ kind # "nothing" => src[source_file].readable
              /\ dst' = AfterFailure(dst, dest_path, src[source_file], kind)
         /\ results' = CountError(CountConflict(results, Conflict(dst, source_file)), source_file)
         /\ Note(source_file, "error", dest_path)
    /\ i' = NextEntry(i)
    /\ UNCHANGED <<args, output_kind, src, all_files, pc, run, start, first>>

\* The loop is over: return results.
Return ==
    /\ pc = "loop"
    /\ i > Len(all_files)
    /\ pc' = "done"
    /\ UNCHANGED <<args, output_kind, src, dst, all_files, i, results, run, failures_left,
                   outcome, target_of, cmp_raised, start, first>>

\* The process is interrupted between two entries of the first call
\* (KeyboardInterrupt is no Exception: the except branch does not catch it).
Interrupt ==
    /\ AtEntry
    /\ run = "first"
    /\ pc' = "interrupted"
    /\ UNCHANGED <<args, output_kind, src, dst, all_files, i, results, run, failures_left,
                   outcome, target_of, cmp_raised, start, first>>

\* The caller calls flatten_folder again with the same arguments.
Again ==
    /\ pc \in {"done", "interrupted"}
    /\ run = "first"
    /\ run' = "second"
    /\ first' = [results |-> results, outcome |-> outcome, all_files |-> all_files,
                 interrupted |-> (pc = "interrupted"), start |-> start,
                 src |-> src, dst |-> dst]
    /\ pc' = "idle"
    /\ UNCHANGED <<args, output_kind, src, dst, all_files, i, results, failures_left,
                   outcome, target_of, cmp_raised, start>>

Next ==
    \/ Begin
    \/ BeginRaises
    \/ SkipIdentical
    \/ Place
    \/ PlaceFails
    \/ Return
    \/ Interrupt
    \/ Again

Spec == Init /\ [][Next]_vars

\* ------------------------------------------------------ claims: vocabulary

\* The set of elements of a sequence.
Range(s) == {s[k] : k \in 1..Len(s)}

\* The filter-eligible files of the tree this run began with.
EligibleFiles == {p \in DOMAIN start.src : Eligible(p, extensions)}

\* A call has returned.
Returned == pc = "done"

\* The second call has returned and the first one had returned too.
SecondReturned == run = "second" /\ pc = "done" /\ ~first.interrupted

\* Lexicographic rank of a relative path ("a/x.wav" < "a/x_001.wav" < "a/y.TXT"
\* < "b/x.wav": '.' sorts before '_', 'x' before 'y').
DirRank(d) == CASE d = "a" -> 1 [] d = "b" -> 2 [] OTHER -> 3

NameRank(n) == CASE n = X -> 1 [] n = X1 -> 2 [] OTHER -> 3

PathLess(p, q) ==
    \/ DirRank(p[1]) < DirRank(q[1])
    \/ DirRank(p[1]) = DirRank(q[1]) /\ NameRank(p[2]) < NameRank(q[2])

IsSorted(s) == \A j, k \in 1..Len(s) : j < k => PathLess(s[j], s[k])

RECURSIVE FlattenSeq(_, _, _)
\* The destination a failure-free run over the entries files, in that order,
\* makes of destination d and tree s.
FlattenSeq(files, d, s) ==
    IF files = <<>> THEN d
    ELSE LET source_file == Head(files) IN
           FlattenSeq(Tail(files),
                      IF IsIdentical(d, s, source_file) THEN d
                      ELSE Placed(d, Target(d, source_file), s[source_file]),
                      s)

\* The eligible files of tree s in lexicographic order of relative path.
SortedFiles(s, exts) ==
    CHOOSE f \in Perms({p \in DOMAIN s : Eligible(p, exts)}) : IsSorted(f)

\* ------------------------------------------------------------------ claims

\* C1: a step of flatten_folder never changes or removes a file that is
\* already in the destination directory: every write goes to a name that did
\* not exist at the moment of the write.
C1_NoOverwrite ==
    [][\A n \in DOMAIN dst : n \in DOMAIN dst' /\ dst'[n] = dst[n]]_vars

\* C1 witness: a file was placed under a resolved name because its own name
\* was taken by a file that was in the destination before the run.
C1_Witness ==
    /\ Returned
    /\ \E p \in DOMAIN outcome :
         /\ outcome[p] = "placed"
         /\ target_of[p] # DestPath(p)
         /\ DestPath(p) \in DOMAIN start.dst

C3_CopyIdempotent ==
    (SecondReturned /\ ~move_files /\ first.results.errors = 0 /\ results.errors = 0) =>
        /\ results.processed = 0
        /\ results.skipped = Cardinality(EligibleFiles)
        /\ dst = first.dst

\* C4: a file whose identity comparison could not read one of the two files
\* is recorded as an error, is listed in error_files and is not placed.
C4_ReadFailureIsError ==
    \A p \in cmp_raised :
        /\ outcome[p] = "error"
        /\ p \in Range(results.error_files)

\* C5 as stated: in Move mode the second run discovers no file and returns
\* all-zero counts.
C5_SecondMoveRunEmpty ==
    (run = "second" /\ move_files /\ ~first.interrupted /\ pc \in {"loop", "done"}) =>
        /\ all_files = <<>>
        /\ results.processed = 0 /\ results.skipped = 0 /\ results.errors = 0

\* C5 amended: in Move mode the second run discovers exactly the files the
\* first run did not place (skipped as identical, or recorded as errors); it
\* discovers none, and returns all-zero counts, exactly when the first run
\* skipped nothing and recorded no error.
C5_SecondMoveRunLeftovers ==
    (run = "second" /\ move_files /\ ~first.interrupted /\ pc \in {"loop", "done"}) =>
        /\ Range(all_files) =
             {p \in DOMAIN first.outcome : first.outcome[p] \in {"skipped", "error"}}
        /\ Len(all_files) = first.results.skipped + first.results.errors
        /\ (first.results.skipped + first.results.errors = 0) =>
             (results.processed = 0 /\ results.skipped = 0 /\ results.errors = 0)

\* C5 witness: the second Move run has returned after a first run that moved
\* one file and skipped an identical duplicate.
C5_Witness ==
    /\ SecondReturned
    /\ move_files
    /\ first.results.processed > 0
    /\ first.results.skipped > 0

\* C6: with an input_dir that is missing or no directory, flatten_folder does
\* not get to its loop and does not return a result.
C6_MissingRootIsFatal ==
    input_kind # "dir" => pc \in {"idle", "raised"}

\* C7: the destination a failure-free first run leaves is the one the run
\* over the entries in lexicographic order of relative path leaves, whatever
\* order the directory traversal yielded them in.
C7_SortedDiscovery ==
    (run = "first" /\ Returned /\ results.errors = 0) =>
        dst = FlattenSeq(SortedFiles(start.src, extensions), start.dst, start.src)

\* The discovered files that share basename b.
Sharing(b) == {p \in Range(all_files) : basename(p) = b}

\* The counters n >= 1 for which b's suffixed name exists in the destination.
SuffixesOf(b) == {n \in 1..(Cardinality(DOMAIN dst) + 1) : exists(dst, Suffixed(b, n))}

\* The first discovered file with basename b.
FirstSharing(b) ==
    all_files[CHOOSE k \in 1..Len(all_files) :
                 /\ basename(all_files[k]) = b
                 /\ \A j \in 1..(k - 1) : basename(all_files[j]) # b]

\* k >= 2 files share basename b, with pairwise different content, and the
\* run started on an empty destination and recorded no error.
CollisionCase(b) ==
    /\ run = "first"
    /\ Returned
    /\ DOMAIN start.dst = {}
    /\ results.errors = 0
    /\ Cardinality(Sharing(b)) >= 2
    /\ \A p, q \in Sharing(b) : p # q => start.src[p].content # start.src[q].content

\* The destination holds b and b_001 .. b_(k-1) and no other suffix of b, the
\* plain name holds the first-processed file, the k contents differ pairwise.
CollisionResult(b) ==
    LET k == Cardinality(Sharing(b)) IN
      /\ exists(dst, b)
      /\ SuffixesOf(b) = 1..(k - 1)
      /\ dst[b].content = start.src[FirstSharing(b)].content
      /\ Cardinality({dst[n].content : n \in {b} \cup {Suffixed(b, c) : c \in 1..(k - 1)}}) = k

NoAlias(b) ==
    \A p \in Range(all_files) :
        ~(/\ basename(p)[1] = b[1]
          /\ basename(p)[3] = b[3]
          /\ Len(basename(p)[2]) = Len(b[2]) + 1
          /\ SubSeq(basename(p)[2], 1, Len(b[2])) = b[2])

C9_SafeRerun ==
    (run = "second" /\ Returned /\ first.interrupted /\ ~move_files
       /\ first.results.errors = 0 /\ results.errors = 0) =>
        /\ \A p \in DOMAIN first.outcome :
             first.outcome[p] = "placed" => outcome[p] = "skipped"
        /\ \E walk \in os_walk(input_kind, src) :
             dst = FlattenSeq(get_all_files(walk, extensions), first.start.dst, src)

\* The loop is at an entry whose copy cannot succeed: Copy mode and a source
\* file that cannot be read.
CopyMustFail == AtEntry /\ ~move_files /\ ~src[all_files[i]].readable

C11_EmptyFilterRejected ==
    (extensions.present /\ extensions.list = {}) => pc \in {"idle", "raised"}

\* A step that handles the entry the loop is at (skip, placement or failure).
HandlesEntry == AtEntry /\ pc' = "loop"

\* The handled entries whose own destination name was taken when they were
\* handled: those skipped, and those sent to a resolved name.
TakenEntries ==
    {p \in DOMAIN outcome : outcome[p] = "skipped" \/ target_of[p] # DestPath(p)}

\* C12: each handled entry adds one to conflicts exactly when
\* output_dir/basename existed at that moment, whether the entry is then
\* skipped, placed under a resolved name or fails; so conflicts counts those
\* entries and is never below skipped.
C12_ConflictsCounted ==
    /\ []((pc \in {"loop", "done", "interrupted"}) =>
            /\ results.conflicts = Cardinality(TakenEntries)
            /\ results.conflicts >= results.skipped)
    /\ [][HandlesEntry =>
            results'.conflicts =
              results.conflicts + (IF exists(dst, basename(all_files[i])) THEN 1 ELSE 0)]_vars

\* C12 witness: a returned run that skipped one identical file and placed
\* another under a resolved name.
C12_Witness ==
    /\ Returned
    /\ \E p, q \in DOMAIN outcome :
         /\ outcome[p] = "skipped"
         /\ outcome[q] = "placed"
         /\ target_of[q] # DestPath(q)

\* C13: in every destination the run reaches and for every source basename,
\* handle_name_conflict returns the path unchanged when it is free and
\* otherwise the suffixed path of the smallest counter n >= 1 that is free:
\* the result never exists and every smaller counter's path does.
C13_SmallestFreeSuffix ==
    \A name \in SrcNames :
        LET r == handle_name_conflict(dst, name) IN
          /\ ~exists(dst, r)
          /\ ~exists(dst, name) => r = name
          /\ exists(dst, name) =>
               \E n \in 1..(Cardinality(DOMAIN dst) + 1) :
                  /\ r = Suffixed(name, n)
                  /\ \A m \in 1..(n - 1) : exists(dst, Suffixed(name, m))

\* C13 witness: a file was placed under counter 2 of its name, the plain name
\* and counter 1 being taken.
C13_Witness ==
    \E p \in DOMAIN outcome :
        /\ outcome[p] = "placed"
        /\ target_of[p] = Suffixed(DestPath(p), 2)
        /\ exists(start.dst, DestPath(p))

\* The name of the entry the loop is at is taken by a file with the same
\* bytes.
ByteIdenticalOccupant ==
    /\ exists(dst, basename(all_files[i]))
    /\ dst[basename(all_files[i])].content = src[all_files[i]].content

\* C14: an entry whose destination name is taken by a byte-identical file
\* adds one to conflicts and to skipped and writes nothing, in either mode:
\* destination and source stay as they are.
C14_SkipWritesNothing ==
    [][(HandlesEntry /\ ByteIdenticalOccupant) =>
         /\ dst' = dst
         /\ src' = src
         /\ results'.conflicts = results.conflicts + 1
         /\ results'.skipped = results.skipped + 1]_vars

RECURSIVE RenamePolicy(_, _, _)
\* What the documented "rename" behaviour makes of the entries files over tree
\* s, from the destination and counts in acc: skip an entry whose name is
\* taken by an identical file, place any other entry under its name or, when
\* that is taken, under its smallest free suffix. No policy is consulted.
RenamePolicy(files, s, acc) ==
    IF files = <<>> THEN acc
    ELSE LET source_file == Head(files)
             b == basename(source_file)
             taken == exists(acc.dst, b)
             hit == IF taken THEN 1 ELSE 0
         IN  IF taken /\ files_are_identical(s[source_file], acc.dst[b])
             THEN RenamePolicy(Tail(files), s,
                    [acc EXCEPT !.conflicts = @ + 1, !.skipped = @ + 1])
             ELSE RenamePolicy(Tail(files), s,
                    [dst |-> Put(acc.dst, handle_name_conflict(acc.dst, b), s[source_file]),
                     processed |-> acc.processed + 1,
                     skipped |-> acc.skipped,
                     conflicts |-> acc.conflicts + hit])

Handled(what) == {p \in DOMAIN outcome : outcome[p] = what}

\* C16: a copy run never changes the source tree. In a move run, at every
\* point of the loop, a discovered file is either still at its source path
\* with its content (not yet handled, skipped or failed), or it was processed,
\* is gone from the source and its content sits under one destination name
\* that this run created and that no other processed file was sent to.
C16_ContentConserved ==
    /\ [][(~move_files /\ pc \in {"loop", "done", "interrupted"}) => src' = src]_vars
    /\ []((move_files /\ pc \in {"loop", "done", "interrupted"}) =>
            \A p \in Range(all_files) :
               \/ /\ p \notin Handled("placed")
                  /\ p \in DOMAIN src
                  /\ src[p] = start.src[p]
               \/ /\ p \in Handled("placed")
                  /\ p \notin DOMAIN src
                  /\ target_of[p] \notin DOMAIN start.dst
                  /\ exists(dst, target_of[p])
                  /\ dst[target_of[p]] = start.src[p]
                  /\ \A q \in Handled("placed") : q # p => target_of[q] # target_of[p])

\* C16 witness: a move run returned with one file moved to the destination
\* and another, skipped as identical, left in the source.
C16_Witness ==
    /\ Returned
    /\ move_files
    /\ Handled("placed") # {}
    /\ Handled("skipped") # {}

=============================================================================
